---- MODULE Spec2Model ----
(***************************************************************************)
(* UserItemRecDataProvider (reco_encoder/data/input_layer.py).             *)
(*                                                                         *)
(* The data directory is a listing of text files; a line is the sequence   *)
(* of its fields after strip().split(delimiter), a field being the integer *)
(* that int()/float() reads from it.  The constructor is one action; a     *)
(* generator returned by iterate_one_epoch / iterate_one_epoch_eval is an  *)
(* object whose every next() is one action.                                *)
(***************************************************************************)
EXTENDS Integers, Sequences, FiniteSets, TLC

\* ------------------------------------------------------------------ bounds
\* Largest number of lines in the whole data directory.
MaxLines == 2
\* Largest number of lines of a directory whose provider is iterated.
MaxIterLines == 3

\* Raw identifiers found in the files (arbitrary integers, not dense).
RawIds == {5, 9, 13}
\* The raw identifiers of the directories whose construction is explored in full.
LoadIds == {5, 9}
\* Ratings found in the files.
Ratings == {3, 4}
\* params['batch_size']
BatchSizes == {1, 2}
\* params['major'] (the two legal values)
Majors == {"items", "users"}
\* The files of data_dir that end with the extension, in listdir order.
FileNames == <<"a.txt", "b.txt">>

\* ------------------------------------------------- program constants
\* default of params['itemIdInd']
ItemIdInd == 0
\* default of params['userIdInd']
UserIdInd == 1
\* default of params['ratingInd']
RatingInd == 2
\* a line needs this many fields
MinFields == 3

\* ------------------------------------------------------------------ state
VARIABLES
  params,        \* [batch_size, major]
  user_id_map_arg, \* constructor argument: [given, map]
  item_id_map_arg, \* constructor argument: [given, map]
  corpus,        \* corpus[f] = the lines of file FileNames[f]
  phase,         \* "new", "constructed" (an object exists), "failed" (__init__ raised)
  error,         \* [kind, file] of the exception that ended the last failing call
  user_id_map,   \* self._user_id_map
  item_id_map,   \* self._item_id_map
  vector_dim,    \* self._vector_dim
  data,          \* self.data: [keys (insertion order), get]
  src_data,      \* self.src_data: [given, get]
  trainGen,      \* the generator of the latest iterate_one_epoch() call
  evalGen        \* the generator of the latest iterate_one_epoch_eval() call

vars == <<params, user_id_map_arg, item_id_map_arg, corpus, phase, error,
          user_id_map, item_id_map, vector_dim, data, src_data, trainGen, evalGen>>

inputs == <<params, user_id_map_arg, item_id_map_arg, corpus>>
store == <<user_id_map, item_id_map, vector_dim, data>>

\* ------------------------------------------------------------------ helpers
EmptyMap == [x \in {} |-> 0]
NoArg == [given |-> FALSE, map |-> EmptyMap]
Arg(m) == [given |-> TRUE, map |-> m]
NoError == [kind |-> "none", file |-> "none"]

EmptyData == [keys |-> <<>>, get |-> EmptyMap]

Range(s) == {s[i] : i \in 1..Len(s)}

\* Python's  d[k] = v  on a dict held as a function
Put(m, k, v) == [x \in DOMAIN m \cup {k} |-> IF x = k THEN v ELSE m[x]]

\* src_files / readlines: the lines in the order the loops reach them
RECURSIVE LinesOf(_, _)
LinesOf(c, f) ==
  IF f > Len(c) THEN <<>>
  ELSE [i \in 1..Len(c[f]) |-> [file |-> FileNames[f], parts |-> c[f][i]]]
       \o LinesOf(c, f + 1)

Records(c) == LinesOf(c, 1)
\* ------------------------------------------------------------ _build_maps
\* One pass of the loop of _build_maps over the lines from the k-th on.
\* st = [err, um, im, u_id, i_id]; a raise leaves the loop at once.
RECURSIVE build_maps_loop(_, _, _)
build_maps_loop(recs, k, st) ==
  IF k > Len(recs) THEN st
  ELSE LET parts == recs[k].parts IN
       IF Len(parts) < MinFields
       THEN [st EXCEPT !.err = [kind |-> "MalformedRecord", file |-> recs[k].file]]
       ELSE LET u_id_orig == parts[UserIdInd + 1]
                i_id_orig == parts[ItemIdInd + 1]
                st1 == IF u_id_orig \notin DOMAIN st.um
                       THEN [st EXCEPT !.um = Put(@, u_id_orig, st.u_id),
                                       !.u_id = @ + 1]
                       ELSE st
                st2 == IF i_id_orig \notin DOMAIN st1.im
                       THEN [st1 EXCEPT !.im = Put(@, i_id_orig, st1.i_id),
                                        !.i_id = @ + 1]
                       ELSE st1
            IN build_maps_loop(recs, k + 1, st2)

\* faulty variant of build_maps: the counters start at 1
build_maps_from_one(c) ==
  build_maps_loop(Records(c), 1,
                  [err |-> NoError, um |-> EmptyMap, im |-> EmptyMap,
                   u_id |-> 1, i_id |-> 1])

build_maps(c) ==
  build_maps_loop(Records(c), 1,
                  [err |-> NoError, um |-> EmptyMap, im |-> EmptyMap,
                   u_id |-> 0, i_id |-> 0])

\* faulty variant of Append_to: the pair is put in front of the list
Append_to_front(d, key, pair) ==
  IF key \notin DOMAIN d.get
  THEN [keys |-> Append(d.keys, key), get |-> Put(d.get, key, <<pair>>)]
  ELSE [keys |-> d.keys, get |-> [d.get EXCEPT ![key] = <<pair>> \o @]]

\* --------------------------------------------------------------- __init__
\* self.data[key].append((value, rating)), creating the list at a new key
Append_to(d, key, pair) ==
  IF key \notin DOMAIN d.get
  THEN [keys |-> Append(d.keys, key), get |-> Put(d.get, key, <<pair>>)]
  ELSE [keys |-> d.keys, get |-> [d.get EXCEPT ![key] = Append(@, pair)]]

\* faulty variant of load_loop: a short line is skipped
RECURSIVE load_loop_skip_short(_, _, _, _, _, _, _)
load_loop_skip_short(recs, k, major_map, minor_map, major_ind, minor_ind, st) ==
  IF k > Len(recs) THEN st
  ELSE LET parts == recs[k].parts IN
       IF Len(parts) < MinFields
       THEN load_loop_skip_short(recs, k + 1, major_map, minor_map, major_ind,
                                 minor_ind, st)
       ELSE IF \/ parts[major_ind + 1] \notin DOMAIN major_map
               \/ parts[minor_ind + 1] \notin DOMAIN minor_map
       THEN [st EXCEPT !.err = [kind |-> "UnknownIdentifier", file |-> recs[k].file]]
       ELSE load_loop_skip_short(recs, k + 1, major_map, minor_map, major_ind, minor_ind,
              [st EXCEPT !.data = Append_to(@, (major_map[parts[major_ind + 1]]),
                           <<minor_map[parts[minor_ind + 1]], parts[RatingInd + 1]>>)])

\* faulty variant of load_loop: a record with an id outside the maps is skipped
RECURSIVE load_loop_skip_unknown(_, _, _, _, _, _, _)
load_loop_skip_unknown(recs, k, major_map, minor_map, major_ind, minor_ind, st) ==
  IF k > Len(recs) THEN st
  ELSE LET parts == recs[k].parts IN
       IF Len(parts) < MinFields
       THEN [st EXCEPT !.err = [kind |-> "MalformedRecord", file |-> recs[k].file]]
       ELSE IF \/ parts[major_ind + 1] \notin DOMAIN major_map
               \/ parts[minor_ind + 1] \notin DOMAIN minor_map
       THEN load_loop_skip_unknown(recs, k + 1, major_map, minor_map, major_ind,
                                   minor_ind, st)
       ELSE load_loop_skip_unknown(recs, k + 1, major_map, minor_map, major_ind, minor_ind,
              [st EXCEPT !.data = Append_to(@, (major_map[parts[major_ind + 1]]),
                           <<minor_map[parts[minor_ind + 1]], parts[RatingInd + 1]>>)])

\* The loop that reads and formats the data, from the k-th line on.
\* st = [err, data]
RECURSIVE load_loop(_, _, _, _, _, _, _)
load_loop(recs, k, major_map, minor_map, major_ind, minor_ind, st) ==
  IF k > Len(recs) THEN st
  ELSE LET parts == recs[k].parts IN
       IF Len(parts) < MinFields
       THEN [st EXCEPT !.err = [kind |-> "MalformedRecord", file |-> recs[k].file]]
       ELSE IF \/ parts[major_ind + 1] \notin DOMAIN major_map
               \/ parts[minor_ind + 1] \notin DOMAIN minor_map
       THEN [st EXCEPT !.err = [kind |-> "UnknownIdentifier", file |-> recs[k].file]]
       ELSE LET key == major_map[parts[major_ind + 1]]
                value == minor_map[parts[minor_ind + 1]]
                rating == parts[RatingInd + 1]
            IN load_loop(recs, k + 1, major_map, minor_map, major_ind, minor_ind,
                         [st EXCEPT !.data = Append_to(@, key, <<value, rating>>)])

\* faulty variant of maps_in_use: the maps are built only when neither is given
maps_in_use_if_none_given(ua, ia, c) ==
  IF (~ua.given) /\ (~ia.given)
  THEN LET b == build_maps(c) IN [err |-> b.err, um |-> b.um, im |-> b.im]
  ELSE [err |-> NoError, um |-> ua.map, im |-> ia.map]

\* The identifier maps the constructor ends up with: [err, um, im]
maps_in_use(ua, ia, c) ==
  IF (~ua.given) \/ (~ia.given)
  THEN LET b == build_maps(c) IN [err |-> b.err, um |-> b.um, im |-> b.im]
  ELSE [err |-> NoError, um |-> ua.map, im |-> ia.map]

\* len(minor_map)
vector_dim_of(major, um, im) ==
  Cardinality(DOMAIN (IF major = "items" THEN um ELSE im))

\* UserItemRecDataProvider(params, user_id_map, item_id_map): what __init__
\* leaves behind, [err, um, im, vdim, data]; err.kind = "none" when it returns.
UserItemRecDataProvider(p, ua, ia, c) ==
  LET failed(e) == [err |-> e, um |-> EmptyMap, im |-> EmptyMap, vdim |-> 0,
                    data |-> EmptyData]
  IN
  IF ~(p.major = "items" \/ p.major = "users")
  THEN failed([kind |-> "ValueError", file |-> "none"])
  ELSE
  LET major_ind == IF p.major = "items" THEN ItemIdInd ELSE UserIdInd
      minor_ind == IF p.major = "items" THEN UserIdInd ELSE ItemIdInd
      m == maps_in_use(ua, ia, c)
  IN
  IF m.err.kind # "none" THEN failed(m.err)
  ELSE
  LET major_map == IF p.major = "items" THEN m.im ELSE m.um
      minor_map == IF p.major = "items" THEN m.um ELSE m.im
      l == load_loop(Records(c), 1, major_map, minor_map, major_ind, minor_ind,
                     [err |-> NoError, data |-> EmptyData])
  IN
  IF l.err.kind # "none" THEN failed(l.err)
  ELSE [err |-> NoError, um |-> m.um, im |-> m.im,
        vdim |-> vector_dim_of(p.major, m.um, m.im), data |-> l.data]

\* The caller runs the constructor once.
Construct ==
  /\ phase = "new"
  /\ LET r == UserItemRecDataProvider(params, user_id_map_arg, item_id_map_arg, corpus)
     IN IF r.err.kind = "none"
        THEN /\ phase' = "constructed"
             /\ user_id_map' = r.um
             /\ item_id_map' = r.im
             /\ vector_dim' = r.vdim
             /\ data' = r.data
             /\ UNCHANGED error
        ELSE /\ phase' = "failed"
             /\ error' = r.err
             /\ UNCHANGED store
  /\ UNCHANGED <<inputs, src_data, trainGen, evalGen>>
\* ------------------------------------------------------ iterate_one_epoch
NoEvalGen == [pc |-> "none", for_inf |-> FALSE, keys |-> <<>>, s_ind |-> 0,
              err |-> "none", out |-> <<>>]
NoTrainGen == [pc |-> "none", keys |-> <<>>, s_ind |-> 0, e_ind |-> 0, out |-> <<>>]

\* random.shuffle(keys): any ordering of the keys
Shuffles(keys) ==
  {p \in [1..Len(keys) -> Range(keys)] : \A i, j \in 1..Len(keys) : p[i] = p[j] => i = j}

\* The for loop over range(s_ind, e_ind), from ind on.  acc.rows is the list of
\* the keys the loop has read (kept for the properties; the code has no such list).
RECURSIVE batch_loop(_, _, _, _, _, _)
batch_loop(d, keys, ind, e_ind, local_ind, acc) ==
  IF ind >= e_ind THEN acc
  ELSE LET l == d.get[keys[ind + 1]] IN
       batch_loop(d, keys, ind + 1, e_ind, local_ind + 1,
                  [inds1 |-> acc.inds1 \o [j \in 1..Len(l) |-> local_ind],
                   inds2 |-> acc.inds2 \o [j \in 1..Len(l) |-> l[j][1]],
                   vals  |-> acc.vals \o [j \in 1..Len(l) |-> l[j][2]],
                   rows  |-> Append(acc.rows, keys[ind + 1])])

\* faulty variant of mini_batch: local_ind starts at 1
mini_batch_rows_from_one(d, keys, s_ind, e_ind, batch_size, vdim) ==
  LET b == batch_loop(d, keys, s_ind, e_ind, 1,
                      [inds1 |-> <<>>, inds2 |-> <<>>, vals |-> <<>>, rows |-> <<>>])
  IN [inds1 |-> b.inds1, inds2 |-> b.inds2, vals |-> b.vals,
      size |-> <<batch_size, vdim>>, rows |-> b.rows]

\* torch.sparse.FloatTensor(i_torch, v_torch, torch.Size([batch_size, vector_dim]))
mini_batch(d, keys, s_ind, e_ind, batch_size, vdim) ==
  LET b == batch_loop(d, keys, s_ind, e_ind, 0,
                      [inds1 |-> <<>>, inds2 |-> <<>>, vals |-> <<>>, rows |-> <<>>])
  IN [inds1 |-> b.inds1, inds2 |-> b.inds2, vals |-> b.vals,
      size |-> <<batch_size, vdim>>, rows |-> b.rows]

\* One turn of the while loop: the test, and the body up to the yield.
train_step(g, d, batch_size, vdim) ==
  IF g.e_ind < Len(g.keys)
  THEN [pc |-> "yielded", keys |-> g.keys,
        s_ind |-> g.s_ind + batch_size, e_ind |-> g.e_ind + batch_size,
        out |-> Append(g.out, mini_batch(d, g.keys, g.s_ind, g.e_ind, batch_size, vdim))]
  ELSE [g EXCEPT !.pc = "done"]

\* The call: a generator object; nothing of the body has run yet.
IterateOneEpoch ==
  /\ phase = "constructed"
  /\ trainGen' = [NoTrainGen EXCEPT !.pc = "start"]
  /\ evalGen' = NoEvalGen  \* the single consumer drops the generator it held
  /\ UNCHANGED <<inputs, phase, error, store, src_data>>

\* faulty variant of TrainNext: the shuffle reorders the table's own keys
TrainNextShufflingTable ==
  /\ phase = "constructed"
  /\ trainGen.pc \in {"start", "yielded"}
  /\ \E keys \in (IF trainGen.pc = "start" THEN Shuffles(data.keys) ELSE {trainGen.keys}) :
       LET g == IF trainGen.pc = "start"
                THEN [trainGen EXCEPT !.keys = keys, !.s_ind = 0,
                                      !.e_ind = params.batch_size]
                ELSE trainGen
       IN /\ trainGen' = train_step(g, data, params.batch_size, vector_dim)
          /\ data' = [data EXCEPT !.keys = keys]
  /\ UNCHANGED <<inputs, phase, error, user_id_map, item_id_map, vector_dim,
                 src_data, evalGen>>

\* next() on the generator: the first one runs lines 116-120 before the loop.
TrainNext ==
  /\ phase = "constructed"
  /\ trainGen.pc \in {"start", "yielded"}
  /\ \E keys \in (IF trainGen.pc = "start" THEN Shuffles(data.keys) ELSE {trainGen.keys}) :
       LET g == IF trainGen.pc = "start"
                THEN [trainGen EXCEPT !.keys = keys, !.s_ind = 0,
                                      !.e_ind = params.batch_size]
                ELSE trainGen
       IN trainGen' = train_step(g, data, params.batch_size, vector_dim)
  /\ UNCHANGED <<inputs, phase, error, store, src_data, evalGen>>

\* ------------------------------------------------- iterate_one_epoch_eval
NoSrcData == [given |-> FALSE, get |-> EmptyMap]

\* A one-row matrix of shape (1, vector_dim) from a list of (value, rating) pairs
row_matrix(l, vdim) ==
  [inds1 |-> [j \in 1..Len(l) |-> 0],
   inds2 |-> [j \in 1..Len(l) |-> l[j][1]],
   vals  |-> [j \in 1..Len(l) |-> l[j][2]],
   size  |-> <<1, vdim>>]

\* faulty variant of eval_step: the loop stops one key early
eval_step_stops_early(g, d, src, vdim) ==
  IF g.s_ind + 1 < Len(g.keys)
  THEN IF (~src.given) \/ g.keys[g.s_ind + 1] \notin DOMAIN src.get
       THEN [g EXCEPT !.pc = "failed", !.err = "MissingSourceData"]
       ELSE LET key == g.keys[g.s_ind + 1] IN
            [g EXCEPT !.pc = "yielded", !.s_ind = g.s_ind + 1,
                      !.out = Append(@,
                         [batch |-> <<row_matrix(d.get[key], vdim),
                                      row_matrix(src.get[key], vdim)>>,
                          with_key |-> g.for_inf,
                          key |-> IF g.for_inf THEN key ELSE -1])]
  ELSE [g EXCEPT !.pc = "done"]

\* faulty variant of eval_step: a key missing from src_data is passed over
eval_step_skips_missing(g, d, src, vdim) ==
  IF g.s_ind < Len(g.keys)
  THEN IF (~src.given) \/ g.keys[g.s_ind + 1] \notin DOMAIN src.get
       THEN [g EXCEPT !.pc = "yielded", !.s_ind = g.s_ind + 1]
       ELSE LET key == g.keys[g.s_ind + 1] IN
            [g EXCEPT !.pc = "yielded", !.s_ind = g.s_ind + 1,
                      !.out = Append(@,
                         [batch |-> <<row_matrix(d.get[key], vdim),
                                      row_matrix(src.get[key], vdim)>>,
                          with_key |-> g.for_inf,
                          key |-> IF g.for_inf THEN key ELSE -1])]
  ELSE [g EXCEPT !.pc = "done"]

\* One turn of the while loop: the test, and the body up to the yield.
eval_step(g, d, src, vdim) ==
  IF g.s_ind < Len(g.keys)
  THEN LET key == g.keys[g.s_ind + 1] IN
       IF (~src.given) \/ key \notin DOMAIN src.get
       THEN [g EXCEPT !.pc = "failed", !.err = "MissingSourceData"]
       ELSE LET mini_batch_pair == <<row_matrix(d.get[key], vdim),
                                     row_matrix(src.get[key], vdim)>>
                s_ind == g.s_ind + 1
            IN [g EXCEPT !.pc = "yielded", !.s_ind = s_ind,
                         !.out = Append(@,
                            IF ~g.for_inf
                            THEN [batch |-> mini_batch_pair, with_key |-> FALSE,
                                  key |-> -1]
                            ELSE [batch |-> mini_batch_pair, with_key |-> TRUE,
                                  key |-> g.keys[(s_ind - 1) + 1]])]
  ELSE [g EXCEPT !.pc = "done"]

IterateOneEpochEval ==
  /\ phase = "constructed"
  /\ \E for_inf \in BOOLEAN :
       evalGen' = [NoEvalGen EXCEPT !.pc = "start", !.for_inf = for_inf]
  /\ trainGen' = NoTrainGen  \* the single consumer drops the generator it held
  /\ UNCHANGED <<inputs, phase, error, store, src_data>>

\* next() on the generator: the first one runs lines 141-142 before the loop.
EvalNext ==
  /\ phase = "constructed"
  /\ evalGen.pc \in {"start", "yielded"}
  /\ LET g == IF evalGen.pc = "start"
              THEN [evalGen EXCEPT !.keys = data.keys, !.s_ind = 0]
              ELSE evalGen
     IN evalGen' = eval_step(g, data, src_data, vector_dim)
  /\ UNCHANGED <<inputs, phase, error, store, src_data, trainGen>>

\* The tables a caller assigns to src_data: built like self.data, over some of
\* the major keys, each key with the first of its interactions.
SrcTables(d) ==
  {[k \in S |-> <<Head(d.get[k])>>] : S \in SUBSET DOMAIN d.get}

\* provider.src_data = <table>, done by the caller before it asks for an
\* evaluation pass (never under a live evaluation generator)
SetSrcData ==
  /\ phase = "constructed"
  /\ ~src_data.given
  /\ evalGen.pc = "none"
  /\ \E t \in SrcTables(data) : src_data' = [given |-> TRUE, get |-> t]
  /\ UNCHANGED <<inputs, phase, error, store, trainGen, evalGen>>

\* ------------------------------------------------------------------ inputs
SeqsUpTo(S, n) == UNION {[1..k -> S] : k \in 0..n}

RECURSIVE TotalLines(_, _)
TotalLines(c, f) == IF f > Len(c) THEN 0 ELSE Len(c[f]) + TotalLines(c, f + 1)

\* The directories with one file per name and at most n lines of L in all
Corpora(L, n) ==
  {c \in [1..Len(FileNames) -> SeqsUpTo(L, n)] : TotalLines(c, 1) <= n}

\* item, user, rating (the default field order)
WellFormedLines(I, U, R) == {<<i, u, r>> : i \in I, u \in U, r \in R}
\* lines that split into fewer than 3 fields
ShortLines == {<<5, 9>>}

\* caller-built dicts from raw ids to indices (any dict can be passed)
SuppliedMaps == UNION {[S -> 0..(Cardinality(LoadIds) - 1)] : S \in SUBSET LoadIds}
MapArgs == {NoArg} \cup {Arg(m) : m \in SuppliedMaps}

Unbuilt ==
  /\ phase = "new"
  /\ error = NoError
  /\ user_id_map = EmptyMap
  /\ item_id_map = EmptyMap
  /\ vector_dim = 0
  /\ data = EmptyData
  /\ src_data = NoSrcData
  /\ trainGen = NoTrainGen
  /\ evalGen = NoEvalGen

LoadCorpora == Corpora(WellFormedLines(LoadIds, LoadIds, Ratings) \cup ShortLines, MaxLines)

\* Construction over every directory, configuration and pair of map arguments
InitLoad ==
  /\ corpus \in LoadCorpora
  /\ params \in [batch_size : BatchSizes, major : Majors]
  /\ user_id_map_arg \in MapArgs
  /\ item_id_map_arg \in MapArgs
  /\ Unbuilt

SpecLoad == InitLoad /\ [][Construct]_vars

\* Maps supplied together for iteration, total on RawIds: the rank of the raw
\* id counted from 0 (dense) and counted from 1.
RankFrom(base) == [x \in RawIds |-> base + Cardinality({y \in RawIds : y < x})]
IterMapArgs == {<<NoArg, NoArg>>} \cup {<<Arg(RankFrom(b)), Arg(RankFrom(b))>> : b \in {0, 1}}

\* well-formed one-file directories: up to three items, two users
IterCorpora ==
  {c \in Corpora(WellFormedLines(RawIds, LoadIds, {CHOOSE r \in Ratings : TRUE}),
                 MaxIterLines) : \A f \in 2..Len(c) : c[f] = <<>>}

\* Iteration over the providers built from the well-formed directories
Init ==
  /\ corpus \in IterCorpora
  /\ params \in [batch_size : BatchSizes, major : Majors]
  /\ \E a \in IterMapArgs : user_id_map_arg = a[1] /\ item_id_map_arg = a[2]
  /\ Unbuilt

Next ==
  \/ Construct
  \/ SetSrcData
  \/ IterateOneEpoch
  \/ TrainNext
  \/ IterateOneEpochEval
  \/ EvalNext

Spec == Init /\ [][Next]_vars
\* ------------------------------------------------------------- properties
Min(S) == CHOOSE x \in S : \A y \in S : x <= y

MinorMap == IF params.major = "items" THEN user_id_map ELSE item_id_map
MajorMap == IF params.major = "items" THEN item_id_map ELSE user_id_map
MajorInd == IF params.major = "items" THEN ItemIdInd ELSE UserIdInd
MinorInd == IF params.major = "items" THEN UserIdInd ELSE ItemIdInd

\* the keys read by the batches of a sequence of batches, in order
RECURSIVE RowsOf(_)
RowsOf(out) == IF out = <<>> THEN <<>> ELSE Head(out).rows \o RowsOf(Tail(out))

Distinct(q) == \A i, j \in 1..Len(q) : q[i] = q[j] => i = j

\* C1: a finished epoch over n keys with batch size b has yielded floor(n/b)
\* batches, built from floor(n/b)*b distinct major keys, each in one batch.
C1_EpochYieldsFloor ==
  trainGen.pc = "done" =>
    LET n == Len(data.keys)
        b == params.batch_size
        used == RowsOf(trainGen.out)
    IN /\ Len(trainGen.out) = n \div b
       /\ Len(used) = (n \div b) * b
       /\ Distinct(used)
       /\ Range(used) \subseteq Range(data.keys)
       /\ Cardinality(Range(data.keys) \ Range(used)) = n % b

TriplesInBounds ==
  \A k \in 1..Len(trainGen.out) :
    LET mb == trainGen.out[k] IN
    \A j \in 1..Len(mb.inds1) :
      /\ 0 <= mb.inds1[j] /\ mb.inds1[j] < params.batch_size
      /\ 0 <= mb.inds2[j] /\ mb.inds2[j] < vector_dim

MinorMapDense ==
  \A x \in DOMAIN MinorMap :
    0 <= MinorMap[x] /\ MinorMap[x] < Cardinality(DOMAIN MinorMap)

IsElementFor(e, key) ==
  /\ e.batch[1].inds2 = [j \in 1..Len(data.get[key]) |-> data.get[key][j][1]]
  /\ e.batch[1].vals = [j \in 1..Len(data.get[key]) |-> data.get[key][j][2]]
  /\ e.batch[1].inds1 = [j \in 1..Len(data.get[key]) |-> 0]
  /\ e.batch[1].size = <<1, vector_dim>>
  /\ e.batch[2].inds2 = [j \in 1..Len(src_data.get[key]) |-> src_data.get[key][j][1]]
  /\ e.batch[2].vals = [j \in 1..Len(src_data.get[key]) |-> src_data.get[key][j][2]]
  /\ e.batch[2].size = <<1, vector_dim>>
  /\ e.with_key = evalGen.for_inf
  /\ e.with_key => e.key = key

SrcHoldsEveryKey == src_data.given /\ Range(data.keys) \subseteq DOMAIN src_data.get

\* C3: with src_data holding every major key, an evaluation pass does not
\* fail, its k-th element is built from the k-th key of the table's key order
\* (and carries that key when for_inf), and once finished it has yielded as
\* many elements as there are keys.
C3_EvalVisitsKeysInOrder ==
  (SrcHoldsEveryKey /\ evalGen.pc \in {"yielded", "done", "failed"}) =>
    /\ evalGen.pc # "failed"
    /\ Len(evalGen.out) <= Len(data.keys)
    /\ \A k \in 1..Len(evalGen.out) : IsElementFor(evalGen.out[k], data.keys[k])
    /\ evalGen.pc = "done" => Len(evalGen.out) = Len(data.keys)

\* C3 witness: a finished for_inf pass over three keys whose insertion order
\* is not the numeric order
C3_Witness ==
  /\ SrcHoldsEveryKey
  /\ evalGen.pc = "done"
  /\ evalGen.for_inf
  /\ Len(evalGen.out) = 3
  /\ evalGen.out[1].key > evalGen.out[2].key
  /\ \E k \in 1..3 : Len(data.get[data.keys[k]]) = 1

\* ids of a field over the records of the directory, in read order
FieldSeq(ind) == [k \in 1..Len(Records(corpus)) |-> Records(corpus)[k].parts[ind + 1]]
\* the number of distinct ids met before the first occurrence of x
FirstSeenRank(q, x) ==
  Cardinality({q[j] : j \in 1..(Min({k \in 1..Len(q) : q[k] = x}) - 1)})
IsFirstSeenIndex(m, q) ==
  /\ DOMAIN m = Range(q)
  /\ \A x \in DOMAIN m : m[x] = FirstSeenRank(q, x)
  /\ {m[x] : x \in DOMAIN m} = 0..(Cardinality(Range(q)) - 1)
  /\ \A x, y \in DOMAIN m : m[x] = m[y] => x = y

MapsBuiltInternally == ~(user_id_map_arg.given /\ item_id_map_arg.given)

\* C4: maps built internally from K distinct raw users and M distinct raw items
\* have K and M entries, values exactly 0..K-1 and 0..M-1 without duplicates,
\* each raw id at the index of its first occurrence in read order.
C4_MapsAreFirstSeenIndices ==
  (phase = "constructed" /\ MapsBuiltInternally) =>
    /\ IsFirstSeenIndex(user_id_map, FieldSeq(UserIdInd))
    /\ IsFirstSeenIndex(item_id_map, FieldSeq(ItemIdInd))

\* C4 witness: two users and one item over two files, the larger user id
\* read first
C4_Witness ==
  /\ phase = "constructed" /\ MapsBuiltInternally
  /\ Len(corpus[1]) = 1 /\ Len(corpus[2]) = 1
  /\ Cardinality(DOMAIN user_id_map) = 2
  /\ Cardinality(DOMAIN item_id_map) = 1
  /\ user_id_map[9] = 0 /\ user_id_map[5] = 1
ExactlyOneMapGiven == user_id_map_arg.given # item_id_map_arg.given

HasShortLine == \E k \in 1..Len(Records(corpus)) : Len(Records(corpus)[k].parts) < MinFields
FirstShortLine == Min({k \in 1..Len(Records(corpus)) : Len(Records(corpus)[k].parts) < MinFields})

NothingExposed ==
  /\ phase = "failed"
  /\ user_id_map = EmptyMap /\ item_id_map = EmptyMap
  /\ vector_dim = 0 /\ data = EmptyData

\* C5 as stated: construction with exactly one of the two maps supplied fails
\* with InvalidConfiguration and leaves no store.
C5_OneMapIsConfigurationError ==
  (phase # "new" /\ ExactlyOneMapGiven) =>
    (NothingExposed /\ error.kind = "InvalidConfiguration")

\* C5 amended: with exactly one map supplied the constructor raises no
\* configuration error; it ignores the supplied map and builds both maps from
\* the directory as when neither is supplied, so it fails only on a line of
\* fewer than 3 fields and otherwise ends with the maps of the directory's ids.
C5_OneMapIsIgnored ==
  (phase # "new" /\ ExactlyOneMapGiven) =>
    /\ (phase = "failed") = HasShortLine
    /\ phase = "failed" => error.kind = "MalformedRecord"
    /\ phase = "constructed" =>
         /\ IsFirstSeenIndex(user_id_map, FieldSeq(UserIdInd))
         /\ IsFirstSeenIndex(item_id_map, FieldSeq(ItemIdInd))

\* C5 witness: only the user map is supplied, it disagrees with the directory,
\* and the provider is built with other maps
C5_Witness ==
  /\ phase = "constructed"
  /\ user_id_map_arg.given /\ ~item_id_map_arg.given
  /\ Len(Records(corpus)) = 2
  /\ DOMAIN user_id_map_arg.map = {5}
  /\ user_id_map_arg.map[5] = 1
  /\ DOMAIN user_id_map = {9}

\* the positions, in key order, of the keys an evaluation pass cannot find
\* in src_data
MissingPositions ==
  {k \in 1..Len(data.keys) : (~src_data.given) \/ data.keys[k] \notin DOMAIN src_data.get}

EvalStopsAtFirstMissing ==
  evalGen.pc \in {"yielded", "done", "failed"} =>
    /\ \A k \in 1..Len(evalGen.out) : IsElementFor(evalGen.out[k], data.keys[k])
    /\ evalGen.pc = "failed" =>
         /\ MissingPositions # {}
         /\ evalGen.err = "MissingSourceData"
         /\ Len(evalGen.out) = Min(MissingPositions) - 1
    /\ MissingPositions # {} =>
         /\ evalGen.pc # "done"
         /\ Len(evalGen.out) <= Min(MissingPositions) - 1

\* C6 as stated: an evaluation pass on a store whose src_data was never set
\* fails with MissingSourceData; with src_data set but lacking a key it yields
\* the elements of the keys before it and fails at that key.
C6_MissingSourceAlwaysFails ==
  /\ (evalGen.pc \in {"done", "failed"} /\ ~src_data.given) =>
       (evalGen.pc = "failed" /\ evalGen.err = "MissingSourceData")
  /\ EvalStopsAtFirstMissing

\* C6 amended: an evaluation pass fails with MissingSourceData at the first
\* key, having yielded nothing, when src_data was never set and the primary
\* table has at least one major key (over an empty table it ends normally with
\* no element); with src_data set but lacking a key it yields the elements of
\* the keys before the first such key, in key order, and fails at that key.
C6_MissingSourceFailsAtKey ==
  /\ (evalGen.pc \in {"yielded", "done", "failed"} /\ ~src_data.given) =>
       IF data.keys = <<>>
       THEN evalGen.pc = "done" /\ evalGen.out = <<>>
       ELSE evalGen.pc = "failed" /\ evalGen.err = "MissingSourceData"
            /\ evalGen.out = <<>>
  /\ EvalStopsAtFirstMissing

\* C6 witness: src_data lacks the third of three keys; two elements were
\* yielded and the pass failed
C6_Witness ==
  /\ src_data.given
  /\ Len(data.keys) = 3
  /\ MissingPositions = {3}
  /\ evalGen.pc = "failed"
  /\ Len(evalGen.out) = 2

\* a well-formed line before position k with a raw id outside the supplied maps
UnknownIdAt(j) ==
  LET parts == Records(corpus)[j].parts IN
  /\ Len(parts) >= MinFields
  /\ \/ parts[UserIdInd + 1] \notin DOMAIN user_id_map_arg.map
     \/ parts[ItemIdInd + 1] \notin DOMAIN item_id_map_arg.map
UnknownIdBefore(k) == (~MapsBuiltInternally) /\ \E j \in 1..(k - 1) : UnknownIdAt(j)

\* C7 as stated: a line of fewer than 3 fields makes construction fail with
\* MalformedRecord naming the file of the first such line, nothing exposed,
\* whether the maps are built internally or supplied.
C7_ShortLineIsMalformedRecord ==
  (phase # "new" /\ HasShortLine) =>
    /\ NothingExposed
    /\ error = [kind |-> "MalformedRecord", file |-> Records(corpus)[FirstShortLine].file]

\* C7 amended: a line of fewer than 3 fields makes construction fail with
\* nothing exposed: with MalformedRecord naming the file of the first such
\* line, unless both maps were supplied and a well-formed line read before it
\* carries a raw id missing from them, in which case construction has already
\* failed there with UnknownIdentifier.
C7_ShortLineFailsConstruction ==
  (phase # "new" /\ HasShortLine) =>
    /\ NothingExposed
    /\ IF UnknownIdBefore(FirstShortLine)
       THEN error.kind = "UnknownIdentifier"
       ELSE error = [kind |-> "MalformedRecord",
                     file |-> Records(corpus)[FirstShortLine].file]

\* C7 witness: supplied maps, a good line in the first file, a short line in
\* the second, MalformedRecord naming the second
C7_Witness ==
  /\ phase = "failed"
  /\ user_id_map_arg.given /\ item_id_map_arg.given
  /\ Len(corpus[1]) = 1 /\ Len(corpus[1][1]) = 3
  /\ Len(corpus[2]) = 1 /\ Len(corpus[2][1]) = 2
  /\ error = [kind |-> "MalformedRecord", file |-> FileNames[2]]

\* the first line that is short or carries an id outside the maps in use
OffendingLines ==
  {k \in 1..Len(Records(corpus)) :
     Len(Records(corpus)[k].parts) < MinFields \/ UnknownIdAt(k)}

SomeUnknownId == \E k \in 1..Len(Records(corpus)) : UnknownIdAt(k)

\* C8 as stated: construction fails with UnknownIdentifier exactly when some
\* well-formed record carries a raw id that is no key of the map in use, hence
\* never with internally built maps.
C8_UnknownIdentifierIffSomeUnknown ==
  phase # "new" =>
    /\ (error.kind = "UnknownIdentifier") = ((~MapsBuiltInternally) /\ SomeUnknownId)
    /\ MapsBuiltInternally => error.kind # "UnknownIdentifier"

\* C8 amended: construction fails with UnknownIdentifier, nothing exposed,
\* exactly when both maps are supplied and the first line that is either short
\* or carries a raw id missing from them is a well-formed line with such an id
\* (a short line read earlier fails the load with MalformedRecord first);
\* hence never with internally built maps.
C8_UnknownIdentifierIffFirstOffence ==
  phase # "new" =>
    /\ (error.kind = "UnknownIdentifier") =
         /\ ~MapsBuiltInternally
         /\ OffendingLines # {}
         /\ UnknownIdAt(Min(OffendingLines))
    /\ error.kind = "UnknownIdentifier" => NothingExposed
    /\ MapsBuiltInternally => error.kind # "UnknownIdentifier"

\* C8 witness: both maps supplied, the second line's user is not in the user
\* map, the load fails there
C8_Witness ==
  /\ phase = "failed"
  /\ error.kind = "UnknownIdentifier"
  /\ Len(Records(corpus)) = 2
  /\ Min(OffendingLines) = 2
  /\ Records(corpus)[2].parts[UserIdInd + 1] \notin DOMAIN user_id_map_arg.map
  /\ Records(corpus)[2].parts[ItemIdInd + 1] \in DOMAIN item_id_map_arg.map

\* the pairs of the records whose major id is indexed key, in read order
RECURSIVE PairsOfKey(_, _)
PairsOfKey(key, k) ==
  IF k > Len(Records(corpus)) THEN <<>>
  ELSE LET parts == Records(corpus)[k].parts IN
       (IF MajorMap[parts[MajorInd + 1]] = key
        THEN <<(<<MinorMap[parts[MinorInd + 1]], parts[RatingInd + 1]>>)>>
        ELSE <<>>) \o PairsOfKey(key, k + 1)

RECURSIVE SumLens(_, _)
SumLens(d, k) == IF k > Len(d.keys) THEN 0 ELSE Len(d.get[d.keys[k]]) + SumLens(d, k + 1)

\* C9: after construction the keys of the table are exactly the indices of the
\* major raw ids of the directory, each key's list is the (minor index,
\* rating) pairs of its records in read order, and the lists hold as many
\* pairs as there are records.
C9_TableAggregatesRecords ==
  phase = "constructed" =>
    /\ Range(data.keys) = {MajorMap[x] : x \in Range(FieldSeq(MajorInd))}
    /\ DOMAIN data.get = Range(data.keys)
    /\ Distinct(data.keys)
    /\ \A key \in DOMAIN data.get : data.get[key] = PairsOfKey(key, 1)
    /\ SumLens(data, 1) = Len(Records(corpus))

\* C9 witness: one key with two different pairs read from two files
C9_Witness ==
  /\ phase = "constructed"
  /\ Len(corpus[1]) = 1 /\ Len(corpus[2]) = 1
  /\ Len(data.keys) = 1
  /\ Len(data.get[data.keys[1]]) = 2
  /\ data.get[data.keys[1]][1][1] # data.get[data.keys[1]][2][1]
  /\ data.get[data.keys[1]][1][2] # data.get[data.keys[1]][2][2]

IsShuffleOf(p, q) == Len(p) = Len(q) /\ Range(p) = Range(q)

\* C10: no step taken after construction changes the table, the identifier
\* maps or vector_dim; a call leaves a generator that has yielded nothing, and
\* a generator that has been advanced runs over all the major keys (in the
\* table's order for evaluation), whatever was iterated or abandoned before.
C10_IterationLeavesStoreUnchanged ==
  /\ [][phase = "constructed" =>
          /\ phase' = "constructed"
          /\ data' = data
          /\ user_id_map' = user_id_map
          /\ item_id_map' = item_id_map
          /\ vector_dim' = vector_dim
          /\ (trainGen'.pc = "start" => trainGen'.out = <<>>)
          /\ (evalGen'.pc = "start" => evalGen'.out = <<>>)
          /\ (trainGen.pc = "start" /\ trainGen'.pc = "yielded") =>
               (Len(trainGen'.out) = 1 /\ trainGen'.s_ind = params.batch_size)
          /\ (evalGen.pc = "start" /\ evalGen'.pc = "yielded") =>
               (Len(evalGen'.out) = 1 /\ evalGen'.s_ind = 1)]_vars
  /\ [](trainGen.pc \in {"yielded", "done"} => IsShuffleOf(trainGen.keys, data.keys))
  /\ [](evalGen.pc \in {"yielded", "done", "failed"} => evalGen.keys = data.keys)

\* C10 witness: a training generator abandoned after a batch, then an
\* evaluation pass advanced over a table of three keys
C10_Witness ==
  /\ phase = "constructed"
  /\ Len(data.keys) = 3
  /\ evalGen.pc = "yielded"
  /\ Len(evalGen.out) = 2
  /\ trainGen = NoTrainGen
====
